---- MODULE Spec2Model ----
(***************************************************************************)
(* kappa_pitfall.ipynb: synthetic label sets, a noise injector that        *)
(* overwrites randomly chosen positions of a copy of the labels, four      *)
(* scikit-learn metrics of the (true, predicted) pair, and a loop that     *)
(* repeats the trial on a balanced and on a shifted label set.             *)
(*                                                                         *)
(* Arrays are functions on 0..n-1, as in the source.  The metric calls are *)
(* modelled by what scikit-learn computes for them: the confusion matrix   *)
(* is taken over the labels that occur in the two arrays, the weighted     *)
(* kappa weighs by the positions of those labels, the degenerate branches  *)
(* return what the library returns.  accuracy_score and                    *)
(* balanced_accuracy_score are modelled in float64 (round to nearest,      *)
(* ties to even); cohen_kappa_score and matthews_corrcoef are kept as the  *)
(* exact value of the expression the library evaluates.                    *)
(***************************************************************************)
EXTENDS Integers, FiniteSets, Sequences

(***************************************************************************)
(* Sizes.  The notebook's literals (500 labels, 100 noisy positions, 1000  *)
(* experiments) are far beyond exhaustive search; the model keeps the      *)
(* shape of the two scenarios at a smaller scale.                          *)
(***************************************************************************)
\* randint(0, 4+1): the labels are 0..4
NumClasses == 5
\* per-class count of the balanced set (100 in the notebook)
PerClass == 3
\* counts of the shifted set (280, 100, 100, 10, 10 in the notebook)
Majority == 7
Minority == 1
\* size=100 of the loop's get_model_performance, at the model's scale
NoiseCount == 1
\* N_EXPERIMENTS (1000 in the notebook)
N_EXPERIMENTS == 1
\* longest label array drawn as an input of a single trial
MaxLen == 3

Classes == 0..(NumClasses - 1)

(***************************************************************************)
(* Exact rationals <<num, den>>, den > 0, in lowest terms.  <<0, 0>> is    *)
(* the nan that 0/0 yields.                                                *)
(***************************************************************************)
Abs(x) == IF x < 0 THEN -x ELSE x

RECURSIVE GCD(_, _)
GCD(a, b) == IF b = 0 THEN a ELSE GCD(b, a % b)

NaN == <<0, 0>>

Rat(n, d) ==
    IF d = 0 THEN NaN
    ELSE LET g == GCD(Abs(n), Abs(d))
             s == IF d < 0 THEN -1 ELSE 1
         IN  <<(s * n) \div g, (s * d) \div g>>

RatOne == <<1, 1>>

RatSub(a, b) == Rat(a[1] * b[2] - b[1] * a[2], a[2] * b[2])

(***************************************************************************)
(* float64 values in [0, 8) as fixed-point integers v * 2^60, held in four *)
(* limbs of 20 bits, least significant first.  Every float64 that is 0 or  *)
(* at least 2^-7 is such an integer.                                       *)
(***************************************************************************)
Base == 1048576

RECURSIVE Pow2(_)
Pow2(n) == IF n = 0 THEN 1 ELSE 2 * Pow2(n - 1)

FZero == <<0, 0, 0, 0>>
FOne == <<0, 0, 0, 1>>

\* the integer p as a fixed-point value
FInt(p) == <<0, 0, 0, p>>

BigAdd(x, y) ==
    LET s0 == x[1] + y[1]
        s1 == x[2] + y[2] + (s0 \div Base)
        s2 == x[3] + y[3] + (s1 \div Base)
        s3 == x[4] + y[4] + (s2 \div Base)
    IN  <<s0 % Base, s1 % Base, s2 % Base, s3>>

\* floor(x / q) and whether a remainder is left, for 0 < q < 2048
BigDivSmall(x, q) ==
    LET c3 == x[4]
        c2 == (c3 % q) * Base + x[3]
        c1 == (c2 % q) * Base + x[2]
        c0 == (c1 % q) * Base + x[1]
    IN  [quot |-> <<c0 \div q, c1 \div q, c2 \div q, c3 \div q>>,
         inexact |-> (c0 % q) # 0]

BigLeq(x, y) ==
    \/ x[4] < y[4]
    \/ x[4] = y[4] /\ x[3] < y[3]
    \/ x[4] = y[4] /\ x[3] = y[3] /\ x[2] < y[2]
    \/ x[4] = y[4] /\ x[3] = y[3] /\ x[2] = y[2] /\ x[1] <= y[1]

BitLen(n) == CHOOSE b \in 0..31 : (b = 0 \/ Pow2(b - 1) <= n) /\ (b = 31 \/ n < Pow2(b))

\* number of significant bits of the fixed-point integer
BigBitLen(x) ==
    IF x[4] > 0 THEN 60 + BitLen(x[4])
    ELSE IF x[3] > 0 THEN 40 + BitLen(x[3])
    ELSE IF x[2] > 0 THEN 20 + BitLen(x[2])
    ELSE BitLen(x[1])

\* The float64 nearest to the exact value x + (a fraction in (0,1) iff
\* inexact): 53 significant bits, round half to even.  Values below 2^-7
\* have all their bits kept (no such value is inexact in the model).
Round53(x, inexact) ==
    LET len == BigBitLen(x)
        s == len - 53
    IN  IF s <= 0 THEN x
        ELSE LET unit == Pow2(s)
                 low == x[1] % unit
                 half == unit \div 2
                 odd == ((x[1] \div unit) % 2) = 1
                 up == \/ low > half
                       \/ low = half /\ (inexact \/ odd)
                 down == <<x[1] - low, x[2], x[3], x[4]>>
             IN  IF up THEN BigAdd(down, <<unit, 0, 0, 0>>) ELSE down

\* numpy true_divide of two integers, 0 <= p, 0 < q
TrueDivide(p, q) ==
    LET d == BigDivSmall(FInt(p), q) IN Round53(d.quot, d.inexact)

\* float64 + float64
FloatAdd(x, y) == Round53(BigAdd(x, y), FALSE)

\* float64 / integer
FloatDivInt(x, q) ==
    LET d == BigDivSmall(x, q) IN Round53(d.quot, d.inexact)

(***************************************************************************)
(* Label-set generator: np.array(c0*[0] + c1*[1] + ... + c4*[4]).          *)
(***************************************************************************)
ArrayLen(a) == Cardinality(DOMAIN a)

\* number of labels of the classes below c
Before(counts, c) ==
    LET below == [d \in Classes |-> IF d < c THEN counts[d + 1] ELSE 0]
    IN  below[0] + below[1] + below[2] + below[3] + below[4]

LabelSet(counts) ==
    [i \in 0..(Before(counts, NumClasses) - 1) |->
        CHOOSE c \in Classes : Before(counts, c) <= i /\ i < Before(counts, c + 1)]

BalancedCounts == <<PerClass, PerClass, PerClass, PerClass, PerClass>>
ShiftedCounts == <<Majority, PerClass, PerClass, Minority, Minority>>

Balanced == LabelSet(BalancedCounts)
Shifted == LabelSet(ShiftedCounts)

(***************************************************************************)
(* Noise injector.                                                         *)
(*   y_pred = y_true.copy()                                                *)
(*   replaced_pred_inds = np.random.choice(len(y_true), size, replace=False)*)
(*   y_pred[replaced_pred_inds] = np.random.randint(0, 4+1, size)          *)
(* The index array is kept as the set of its elements and the drawn labels *)
(* as a function on that set: the assignment pairs the j-th index with the *)
(* j-th label, and with distinct indices the order of the pairs does not   *)
(* change the result.                                                      *)
(***************************************************************************)
\* choice(n, size) with replace=True: an index may be drawn more than once
ChoiceWithReplacement(n, size) ==
    {S \in SUBSET (0..(n - 1)) : Cardinality(S) \in 1..size}

\* the index sets choice(n, size, replace=False) can return; it raises
\* ValueError when size > n
Choice(n, size) == {S \in SUBSET (0..(n - 1)) : Cardinality(S) = size}

\* randint(0, 4, size): the upper end taken as inclusive
RandIntBelowFour(S) == [S -> 0..(NumClasses - 2)]

\* the label arrays randint(0, 4+1, size) can return, laid on the indices
RandInt(S) == [S -> Classes]

\* y_pred = y_true without .copy(): both names hold the overwritten array
InjectNoiseAliased(yt, S, l) ==
    [y_true |-> [i \in DOMAIN yt |-> IF i \in S THEN l[i] ELSE yt[i]],
     y_pred |-> [i \in DOMAIN yt |-> IF i \in S THEN l[i] ELSE yt[i]]]

\* the two arrays after the copy and the indexed assignment
InjectNoise(yt, S, l) ==
    [y_true |-> yt,
     y_pred |-> [i \in DOMAIN yt |-> IF i \in S THEN l[i] ELSE yt[i]]]

(***************************************************************************)
(* Metric evaluator (scikit-learn).                                        *)
(***************************************************************************)
\* unique_labels(y_true, y_pred): confusion_matrix is called without labels=
UniqueLabels(yt, yp) == {yt[i] : i \in DOMAIN yt} \cup {yp[i] : i \in DOMAIN yp}

\* C[a, b]: number of positions with true label a and predicted label b
ConfusionMatrix(yt, yp) ==
    [a \in Classes, b \in Classes |->
        Cardinality({i \in DOMAIN yt : yt[i] = a /\ yp[i] = b})]

RowSum(C, a) == C[a, 0] + C[a, 1] + C[a, 2] + C[a, 3] + C[a, 4]
ColSum(C, b) == C[0, b] + C[1, b] + C[2, b] + C[3, b] + C[4, b]

RECURSIVE SumOver(_, _)
SumOver(f, S) ==
    IF S = {} THEN 0
    ELSE LET x == CHOOSE y \in S : TRUE IN f[x] + SumOver(f, S \ {x})

\* row or column of a label in the matrix scikit-learn builds
Position(L, a) == Cardinality({x \in L : x < a})

\* weights='linear': w_mat[i][j] = |i - j|
CohenKappaLinear(yt, yp) ==
    LET L == UniqueLabels(yt, yp)
        C == ConfusionMatrix(yt, yp)
        w == [a \in L, b \in L |-> Abs(Position(L, a) - Position(L, b))]
        observed == SumOver([ab \in L \X L |-> w[ab[1], ab[2]] * C[ab[1], ab[2]]], L \X L)
        outer == SumOver([ab \in L \X L |-> w[ab[1], ab[2]] * ColSum(C, ab[1]) * RowSum(C, ab[2])], L \X L)
        total == ArrayLen(yt)
    IN  IF outer = 0 THEN NaN
        ELSE RatSub(RatOne, Rat(observed * total, outer))

\* the weighted disagreement k returned instead of 1 - k
CohenKappaDisagreement(yt, yp) ==
    LET L == UniqueLabels(yt, yp)
        C == ConfusionMatrix(yt, yp)
        w == [a \in L, b \in L |-> (Position(L, a) - Position(L, b)) * (Position(L, a) - Position(L, b))]
        observed == SumOver([ab \in L \X L |-> w[ab[1], ab[2]] * C[ab[1], ab[2]]], L \X L)
        outer == SumOver([ab \in L \X L |-> w[ab[1], ab[2]] * ColSum(C, ab[1]) * RowSum(C, ab[2])], L \X L)
        total == ArrayLen(yt)
    IN  IF outer = 0 THEN NaN
        ELSE Rat(observed * total, outer)

\* cohen_kappa_score(y1, y2, weights='quadratic'):
\*   expected = outer(sum0, sum1) / sum(sum0);  w_mat[i][j] = (i - j)^2
\*   k = sum(w_mat * confusion) / sum(w_mat * expected);  return 1 - k
CohenKappaScore(yt, yp) ==
    LET L == UniqueLabels(yt, yp)
        C == ConfusionMatrix(yt, yp)
        w == [a \in L, b \in L |-> (Position(L, a) - Position(L, b)) * (Position(L, a) - Position(L, b))]
        observed == SumOver([ab \in L \X L |-> w[ab[1], ab[2]] * C[ab[1], ab[2]]], L \X L)
        outer == SumOver([ab \in L \X L |-> w[ab[1], ab[2]] * ColSum(C, ab[1]) * RowSum(C, ab[2])], L \X L)
        total == ArrayLen(yt)
    IN  IF outer = 0 THEN NaN
        ELSE RatSub(RatOne, Rat(observed * total, outer))

\* cov_ytyp taken as n_correct - dot(t_sum, p_sum), the factor n_samples lost
MatthewsCorrcoefUnscaled(yt, yp) ==
    LET C == ConfusionMatrix(yt, yp)
        t_sum == [a \in Classes |-> RowSum(C, a)]
        p_sum == [a \in Classes |-> ColSum(C, a)]
        n_correct == SumOver([a \in Classes |-> C[a, a]], Classes)
        n_samples == SumOver(p_sum, Classes)
        cov_ytyp == n_correct - SumOver([a \in Classes |-> t_sum[a] * p_sum[a]], Classes)
        cov_ypyp == n_samples * n_samples - SumOver([a \in Classes |-> p_sum[a] * p_sum[a]], Classes)
        cov_ytyt == n_samples * n_samples - SumOver([a \in Classes |-> t_sum[a] * t_sum[a]], Classes)
        sq == Rat(cov_ytyp * cov_ytyp, cov_ytyt * cov_ypyp)
    IN  IF cov_ypyp * cov_ytyt = 0 \/ cov_ytyp = 0 THEN <<0, 0, 1>>
        ELSE <<IF cov_ytyp < 0 THEN -1 ELSE 1, sq[1], sq[2]>>

\* matthews_corrcoef(y_true, y_pred): the value is sign * sqrt(num / den),
\* kept as <<sign, num, den>>; 0.0 when a covariance vanishes
MatthewsCorrcoef(yt, yp) ==
    LET C == ConfusionMatrix(yt, yp)
        t_sum == [a \in Classes |-> RowSum(C, a)]
        p_sum == [a \in Classes |-> ColSum(C, a)]
        n_correct == SumOver([a \in Classes |-> C[a, a]], Classes)
        n_samples == SumOver(p_sum, Classes)
        cov_ytyp == n_correct * n_samples - SumOver([a \in Classes |-> t_sum[a] * p_sum[a]], Classes)
        cov_ypyp == n_samples * n_samples - SumOver([a \in Classes |-> p_sum[a] * p_sum[a]], Classes)
        cov_ytyt == n_samples * n_samples - SumOver([a \in Classes |-> t_sum[a] * t_sum[a]], Classes)
        sq == Rat(cov_ytyp * cov_ytyp, cov_ytyt * cov_ypyp)
    IN  IF cov_ypyp * cov_ytyt = 0 \/ cov_ytyp = 0 THEN <<0, 0, 1>>
        ELSE <<IF cov_ytyp < 0 THEN -1 ELSE 1, sq[1], sq[2]>>

MccZero == <<0, 0, 1>>
MccOne == <<1, 1, 1>>

\* number of positions where the two arrays agree
Matches(yt, yp) == Cardinality({i \in DOMAIN yt : yt[i] = yp[i]})

\* accuracy_score(..., normalize=False): the count of matches
AccuracyCount(yt, yp) == FInt(Matches(yt, yp))

\* accuracy_score: the mean of (y_true == y_pred), a float64
AccuracyScore(yt, yp) == TrueDivide(Matches(yt, yp), ArrayLen(yt))

RECURSIVE FloatSum(_, _)
\* np.sum of the first n entries of a float64 sequence, left to right
FloatSum(r, n) == IF n = 0 THEN FZero ELSE FloatAdd(FloatSum(r, n - 1), r[n])

RECURSIVE SortedSeq(_)
SortedSeq(S) ==
    IF S = {} THEN <<>>
    ELSE LET m == CHOOSE x \in S : \A y \in S : x <= y
         IN  <<m>> \o SortedSeq(S \ {m})

\* balanced_accuracy_score: per_class = diag(C) / C.sum(axis=1), the classes
\* that do not occur in y_true (0/0) dropped, then np.mean
BalancedAccuracyScore(yt, yp) ==
    LET C == ConfusionMatrix(yt, yp)
        present == SortedSeq({yt[i] : i \in DOMAIN yt})
        per_class == [j \in 1..Len(present) |->
                         TrueDivide(C[present[j], present[j]], RowSum(C, present[j]))]
    IN  FloatDivInt(FloatSum(per_class, Len(present)), Len(present))

\* the four results, in the order get_model_performance returns them
Metrics(yt, yp) ==
    <<CohenKappaScore(yt, yp), MatthewsCorrcoef(yt, yp),
      AccuracyScore(yt, yp), BalancedAccuracyScore(yt, yp)>>

\* get_model_performance(y_true): every (y_true afterwards, (k, mcc, acc,
\* b_acc)) a call can end with; none when choice raises
GetModelPerformance(yt) ==
    UNION {{<<InjectNoise(yt, S, l).y_true,
              Metrics(InjectNoise(yt, S, l).y_true, InjectNoise(yt, S, l).y_pred)>> :
               l \in RandInt(S)} : S \in Choice(ArrayLen(yt), NoiseCount)}

(***************************************************************************)
(* State.                                                                  *)
(***************************************************************************)
VARIABLES
    pc,                  \* position in the notebook
    noise,               \* the size= of choice and randint in the trial cells
    y_true, y_pred, replaced_pred_inds,
    k, mcc, acc, b_acc,  \* results of the metric cell
    ex,                  \* loop variable of the experiment loop
    ks_balanced, mccs_balanced, accs_balanced, bal_accs_balanced,
    ks_imbalanced, mccs_imbalanced, accs_imbalanced, bal_accs_imbalanced,
    writes               \* history: how often each slot was assigned

trial_vars == <<noise, y_true, y_pred, replaced_pred_inds, k, mcc, acc, b_acc>>
balanced_arrays == <<ks_balanced, mccs_balanced, accs_balanced, bal_accs_balanced>>
imbalanced_arrays == <<ks_imbalanced, mccs_imbalanced, accs_imbalanced, bal_accs_imbalanced>>
loop_vars == <<ex, balanced_arrays, imbalanced_arrays, writes>>
vars == <<pc, trial_vars, loop_vars>>

\* a name that is not bound yet
Unbound == <<>>

\* label arrays np.array(c0*[0] + ... + c4*[4]) of 1..MaxLen labels
CountVectors == {c \in [1..NumClasses -> 0..MaxLen] : Before(c, NumClasses) \in 1..MaxLen}
TrueInputs == {LabelSet(c) : c \in CountVectors}

(***************************************************************************)
(* One trial: the cells that build y_true, inject the noise and evaluate.  *)
(***************************************************************************)
InitTrial ==
    /\ pc = "generated"
    /\ y_true \in TrueInputs
    /\ noise \in 1..MaxLen
    /\ y_pred = Unbound /\ replaced_pred_inds = Unbound
    /\ k = Unbound /\ mcc = Unbound /\ acc = Unbound /\ b_acc = Unbound
    /\ ex = Unbound /\ writes = Unbound
    /\ ks_balanced = Unbound /\ mccs_balanced = Unbound
    /\ accs_balanced = Unbound /\ bal_accs_balanced = Unbound
    /\ ks_imbalanced = Unbound /\ mccs_imbalanced = Unbound
    /\ accs_imbalanced = Unbound /\ bal_accs_imbalanced = Unbound

Inject ==
    /\ pc = "generated"
    /\ noise <= ArrayLen(y_true)
    /\ \E S \in Choice(ArrayLen(y_true), noise) : \E l \in RandInt(S) :
          /\ y_true' = InjectNoise(y_true, S, l).y_true
          /\ y_pred' = InjectNoise(y_true, S, l).y_pred
          /\ replaced_pred_inds' = S
    /\ pc' = "predicted"
    /\ UNCHANGED <<noise, k, mcc, acc, b_acc, loop_vars>>

\* choice raises ValueError: the sample is larger than the population
InjectError ==
    /\ pc = "generated"
    /\ noise > ArrayLen(y_true)
    /\ y_pred' = y_true
    /\ pc' = "ValueError"
    /\ UNCHANGED <<noise, y_true, replaced_pred_inds, k, mcc, acc, b_acc, loop_vars>>

Evaluate ==
    /\ pc = "predicted"
    /\ k' = CohenKappaScore(y_true, y_pred)
    /\ mcc' = MatthewsCorrcoef(y_true, y_pred)
    /\ acc' = AccuracyScore(y_true, y_pred)
    /\ b_acc' = BalancedAccuracyScore(y_true, y_pred)
    /\ pc' = "evaluated"
    /\ UNCHANGED <<noise, y_true, y_pred, replaced_pred_inds, loop_vars>>

Next == Inject \/ InjectError \/ Evaluate

Spec == InitTrial /\ [][Next]_vars

(***************************************************************************)
(* The experiment loop.                                                    *)
(***************************************************************************)
Slots == 0..(N_EXPERIMENTS - 1)

\* np.zeros((N_EXPERIMENTS,)), in the representation of each metric
KappaZeros == [i \in Slots |-> <<0, 1>>]
MccZeros == [i \in Slots |-> MccZero]
FloatZeros == [i \in Slots |-> FZero]

BalancedPerformance == GetModelPerformance(Balanced)
ShiftedPerformance == GetModelPerformance(Shifted)

InitLoop ==
    /\ pc = "for"
    /\ ex = -1
    /\ noise = NoiseCount
    /\ y_true = Unbound /\ y_pred = Unbound /\ replaced_pred_inds = Unbound
    /\ k = Unbound /\ mcc = Unbound /\ acc = Unbound /\ b_acc = Unbound
    /\ ks_balanced = KappaZeros /\ mccs_balanced = MccZeros
    /\ accs_balanced = FloatZeros /\ bal_accs_balanced = FloatZeros
    /\ ks_imbalanced = KappaZeros /\ mccs_imbalanced = MccZeros
    /\ accs_imbalanced = FloatZeros /\ bal_accs_imbalanced = FloatZeros
    /\ writes = [a \in {"balanced", "imbalanced"}, i \in Slots |-> 0]

\* for ex in range(N_EXPERIMENTS): the balanced half of the body
LoopBalanced ==
    /\ pc = "for"
    /\ ex + 1 < N_EXPERIMENTS
    /\ ex' = ex + 1
    /\ \E r \in BalancedPerformance :
          /\ y_true' = r[1]
          /\ k' = r[2][1] /\ mcc' = r[2][2] /\ acc' = r[2][3] /\ b_acc' = r[2][4]
          /\ ks_balanced' = [ks_balanced EXCEPT ![ex'] = r[2][1]]
          /\ mccs_balanced' = [mccs_balanced EXCEPT ![ex'] = r[2][2]]
          /\ accs_balanced' = [accs_balanced EXCEPT ![ex'] = r[2][3]]
          /\ bal_accs_balanced' = [bal_accs_balanced EXCEPT ![ex'] = r[2][4]]
    /\ writes' = [writes EXCEPT !["balanced", ex'] = @ + 1]
    /\ pc' = "shift"
    /\ UNCHANGED <<noise, y_pred, replaced_pred_inds, imbalanced_arrays>>

\* the imbalanced results assigned to the *_balanced arrays
LoopImbalancedSwapped ==
    /\ pc = "shift"
    /\ \E r \in ShiftedPerformance :
          /\ y_true' = r[1]
          /\ k' = r[2][1] /\ mcc' = r[2][2] /\ acc' = r[2][3] /\ b_acc' = r[2][4]
          /\ ks_balanced' = [ks_balanced EXCEPT ![ex] = r[2][1]]
          /\ mccs_balanced' = [mccs_balanced EXCEPT ![ex] = r[2][2]]
          /\ accs_balanced' = [accs_balanced EXCEPT ![ex] = r[2][3]]
          /\ bal_accs_balanced' = [bal_accs_balanced EXCEPT ![ex] = r[2][4]]
    /\ writes' = [writes EXCEPT !["balanced", ex] = @ + 1]
    /\ pc' = "for"
    /\ UNCHANGED <<noise, y_pred, replaced_pred_inds, ex, imbalanced_arrays>>

\* the imbalanced half of the body
LoopImbalanced ==
    /\ pc = "shift"
    /\ \E r \in ShiftedPerformance :
          /\ y_true' = r[1]
          /\ k' = r[2][1] /\ mcc' = r[2][2] /\ acc' = r[2][3] /\ b_acc' = r[2][4]
          /\ ks_imbalanced' = [ks_imbalanced EXCEPT ![ex] = r[2][1]]
          /\ mccs_imbalanced' = [mccs_imbalanced EXCEPT ![ex] = r[2][2]]
          /\ accs_imbalanced' = [accs_imbalanced EXCEPT ![ex] = r[2][3]]
          /\ bal_accs_imbalanced' = [bal_accs_imbalanced EXCEPT ![ex] = r[2][4]]
    /\ writes' = [writes EXCEPT !["imbalanced", ex] = @ + 1]
    /\ pc' = "for"
    /\ UNCHANGED <<noise, y_pred, replaced_pred_inds, ex, balanced_arrays>>

\* range(N_EXPERIMENTS) is exhausted
LoopExit ==
    /\ pc = "for"
    /\ ex + 1 >= N_EXPERIMENTS
    /\ pc' = "done"
    /\ UNCHANGED <<trial_vars, loop_vars>>

NextLoop == LoopBalanced \/ LoopImbalanced \/ LoopExit

SpecLoop == InitLoop /\ [][NextLoop]_vars
(***************************************************************************)
(* Properties of one trial, checked under Spec.                            *)
(***************************************************************************)
Mismatches == {i \in DOMAIN y_true : y_pred[i] # y_true[i]}
LabelsOf(a) == {a[i] : i \in DOMAIN a}

\* C1: the injection leaves y_true as it was, gives y_pred the length of
\* y_true, and y_pred agrees with the unmodified y_true at every position
\* that is not in replaced_pred_inds.
C1_PredictionFrame ==
    [][(pc = "generated" /\ pc' = "predicted") =>
          /\ y_true' = y_true
          /\ DOMAIN y_pred' = DOMAIN y_true
          /\ \A i \in DOMAIN y_true \ replaced_pred_inds' : y_pred'[i] = y_true[i]]_vars

\* a selected position received another label while a position was left out
C1_Witness ==
    /\ pc = "predicted"
    /\ \E i \in replaced_pred_inds : y_pred[i] # y_true[i]
    /\ \E i \in DOMAIN y_true : i \notin replaced_pred_inds

\* C2: when the array is at least as long as the requested size, the
\* selected indices are exactly that many distinct valid positions, so at
\* most that many positions of y_pred differ from y_true and the accuracy is
\* at least (length - size) / length; choice raises only for a shorter array.
C2_NoiseBound ==
    /\ pc = "ValueError" => noise > ArrayLen(y_true)
    /\ pc \in {"predicted", "evaluated"} =>
          /\ noise <= ArrayLen(y_true)
          /\ replaced_pred_inds \subseteq 0..(ArrayLen(y_true) - 1)
          /\ Cardinality(replaced_pred_inds) = noise
          /\ Cardinality(Mismatches) <= noise
    /\ pc = "evaluated" =>
          BigLeq(TrueDivide(ArrayLen(y_true) - noise, ArrayLen(y_true)), acc)

\* every one of several selected positions changed, others were left out
C2_Witness ==
    /\ pc = "evaluated"
    /\ noise >= 2
    /\ noise < ArrayLen(y_true)
    /\ Cardinality(Mismatches) = noise

\* C3: every label of y_pred is one of 0..4, and at every position every
\* one of the five labels can be the replacement, whatever the true label
\* is: in particular the true label itself, and all selected positions may
\* reproduce their true labels at once.
C3_ReplacementLabels ==
    /\ pc \in {"predicted", "evaluated"} =>
          \A i \in DOMAIN y_pred : y_pred[i] \in Classes
    /\ (pc = "generated" /\ noise <= ArrayLen(y_true)) =>
          /\ \A i \in DOMAIN y_true : \A v \in Classes :
                ENABLED (Inject /\ i \in replaced_pred_inds' /\ y_pred'[i] = v)
          /\ ENABLED (Inject /\ y_pred' = y_true)

\* several positions were selected and every one drew its true label again
C3_Witness ==
    /\ pc = "predicted"
    /\ noise >= 2
    /\ y_pred = y_true
    /\ Cardinality(LabelsOf(y_true)) >= 2

(***************************************************************************)
(* The kappa of the description: 1 - sum(w O) / sum(w E) with              *)
(* w[i][j] = (i - j)^2 / (K - 1)^2 over the K = 5 class labels, O the      *)
(* confusion counts and E[i][j] = row_i * col_j / n.                       *)
(***************************************************************************)
RatDiv(a, b) == IF a = NaN \/ b = NaN THEN NaN ELSE Rat(a[1] * b[2], a[2] * b[1])

LabelWeightedKappa(yt, yp) ==
    LET C == ConfusionMatrix(yt, yp)
        K == NumClasses
        n == ArrayLen(yt)
        pairs == Classes \X Classes
        sq == [ab \in pairs |-> (ab[1] - ab[2]) * (ab[1] - ab[2])]
        wO == Rat(SumOver([ab \in pairs |-> sq[ab] * C[ab[1], ab[2]]], pairs),
                  (K - 1) * (K - 1))
        wE == Rat(SumOver([ab \in pairs |-> sq[ab] * RowSum(C, ab[1]) * ColSum(C, ab[2])], pairs),
                  (K - 1) * (K - 1) * n)
    IN  IF wE[1] = 0 THEN NaN ELSE RatSub(RatOne, RatDiv(wO, wE))

\* the labels of S are at least two and lie at equal distances
EquallySpaced(S) ==
    /\ Cardinality(S) >= 2
    /\ \E d \in 1..(NumClasses - 1) :
          \A a \in S : (\E b \in S : b > a) => (a + d \in S /\ \A c \in S : ~(a < c /\ c < a + d))

\* C5 as stated: for all equal-length sequences the kappa value is the
\* label-weighted formula with K = 5.
C5_Original ==
    pc = "evaluated" => k = LabelWeightedKappa(y_true, y_pred)

\* C5: when the labels that occur in the two sequences are at least two and
\* equally spaced (in particular when all five classes occur), the kappa
\* value is 1 - sum(w O) / sum(w E) with the label-based quadratic weights.
C5_KappaFormula ==
    (pc = "evaluated" /\ EquallySpaced(UniqueLabels(y_true, y_pred))) =>
        /\ k # NaN
        /\ k = LabelWeightedKappa(y_true, y_pred)

\* equally spaced labels with a gap, a wrong prediction, a kappa below 1
C5_Witness ==
    /\ pc = "evaluated"
    /\ UniqueLabels(y_true, y_pred) \in {{0, 2, 4}, {1, 3}, {0, 4}}
    /\ Mismatches # {}
    /\ k # NaN /\ k # RatOne

\* C6 as stated: a prediction identical to the true labels has kappa 1,
\* whatever the true labels are.
C6_Original ==
    (pc = "evaluated" /\ y_pred = y_true) => k = RatOne

\* C6: a prediction identical to the true labels has kappa exactly 1 when
\* the true labels hold at least two distinct classes; with a single class
\* the value is the nan of 0/0.
C6_IdentityKappa ==
    (pc = "evaluated" /\ y_pred = y_true) =>
        /\ Cardinality(LabelsOf(y_true)) >= 2 => k = RatOne
        /\ Cardinality(LabelsOf(y_true)) = 1 => k = NaN

\* an identical prediction of several classes was scored by kappa
C6_Witness ==
    /\ pc = "evaluated"
    /\ y_pred = y_true
    /\ Cardinality(LabelsOf(y_true)) >= 2
    /\ k = RatOne

\* C7 as stated: a prediction identical to the true labels has a Matthews
\* correlation coefficient of 1, whatever the true labels are.
C7_Original ==
    (pc = "evaluated" /\ y_pred = y_true) => mcc = MccOne

\* C7: a prediction identical to the true labels has a Matthews correlation
\* coefficient of exactly 1 when the true labels hold at least two distinct
\* classes; with a single class the value is 0.
C7_IdentityMcc ==
    (pc = "evaluated" /\ y_pred = y_true) =>
        /\ Cardinality(LabelsOf(y_true)) >= 2 => mcc = MccOne
        /\ Cardinality(LabelsOf(y_true)) = 1 => mcc = MccZero

\* an identical prediction of three classes was scored by the coefficient
C7_Witness ==
    /\ pc = "evaluated"
    /\ Mismatches = {}
    /\ Cardinality(LabelsOf(y_true)) = 3
    /\ mcc = MccOne

\* x * c for a small natural c
BigMulSmall(x, c) ==
    LET p0 == x[1] * c
        p1 == x[2] * c + (p0 \div Base)
        p2 == x[3] * c + (p1 \div Base)
        p3 == x[4] * c + (p2 \div Base)
    IN  <<p0 % Base, p1 % Base, p2 % Base, p3>>

\* the float64 x lies within half a unit of its last place of m / n
NearestToFraction(x, m, n) ==
    LET s == BigBitLen(x) - 53
        slack == IF s > 0 THEN <<n * Pow2(s), 0, 0, 0>> ELSE FZero
        twice == BigMulSmall(x, 2 * n)
    IN  /\ BigLeq(twice, BigAdd(FInt(2 * m), slack))
        /\ BigLeq(FInt(2 * m), BigAdd(twice, slack))

\* C8: the accuracy is the number of matching positions divided by the
\* length (the float64 nearest to that fraction), it lies in [0, 1], it is
\* 1 exactly when every position matches and 0 exactly when none does.
C8_AccuracyFraction ==
    pc = "evaluated" =>
        /\ NearestToFraction(acc, Matches(y_true, y_pred), ArrayLen(y_true))
        /\ BigLeq(FZero, acc) /\ BigLeq(acc, FOne)
        /\ acc = FOne <=> Matches(y_true, y_pred) = ArrayLen(y_true)
        /\ acc = FZero <=> Matches(y_true, y_pred) = 0

\* two of three positions match: the fraction is not a float64
C8_Witness ==
    /\ pc = "evaluated"
    /\ ArrayLen(y_true) = 3
    /\ Matches(y_true, y_pred) = 2
    /\ acc # FZero /\ acc # FOne

(***************************************************************************)
(* Properties of the experiment loop, checked under SpecLoop.              *)
(***************************************************************************)
\* C4 as stated: in the balanced scenario the balanced accuracy is exactly
\* equal to the accuracy.
C4_Original ==
    \A i \in Slots : writes["balanced", i] > 0 => bal_accs_balanced[i] = accs_balanced[i]

BalancedResults == {r[2] : r \in BalancedPerformance}
ShiftedResults == {r[2] : r \in ShiftedPerformance}

====
